---- MODULE Spec2Model ----
(***************************************************************************)
(* Electronics Lab Inventory LIMS backend (src/backend/app.py): the Flask  *)
(* application built by create_app, its four routes, its two error         *)
(* handlers and the routing Flask performs around them.                    *)
(*                                                                         *)
(* One step of the model is one HTTP exchange: a request is drawn from a   *)
(* small set, routed, the view function (or error handler) runs, and the   *)
(* response is recorded.  The only state the process keeps between         *)
(* requests is the module-level logger's output (app.py:12-13).            *)
(*                                                                         *)
(* The Component class (src/backend/models.py) and the configuration       *)
(* module (src/backend/config.py) are used by no route.  Each has its own  *)
(* specification: SpecComponent, one method call per step, and SpecConfig, *)
(* one statement of the module's import per step.                          *)
(***************************************************************************)
EXTENDS Integers, Sequences, FiniteSets, TLC

VARIABLES
    log,        \* records written by the module-level logger, oldest first
    req,        \* the last request served (NoRequest before the first)
    returned,   \* what the view function / error handler returned for it
    resp,       \* the response sent for it (HEAD responses carry no body)
    ran,        \* the view function that ran for it and the exception raised in it
    lastLogin,  \* the latest successful login exchange before req
    loginRefused, \* some POST /login so far was answered 400
    baseline    \* the response to GET /components as the very first request

httpVars == <<log, req, returned, resp, ran, lastLogin, loginRefused, baseline>>

(* A Component object of models.py, used on its own: no route touches it.  *)
VARIABLES
    self,       \* the attributes of the Component
    before,     \* its attributes when the last method call began
    call,       \* the last method call: its arguments and how it ended
    now         \* the clock datetime.utcnow() reads

componentVars == <<self, before, call, now>>

(* The module config.py while it is imported: app.py never imports it.     *)
VARIABLES
    environ,    \* os.environ: the variables config.py reads
    pc,         \* the statement of config.py that runs next
    module,     \* the names config.py has bound so far, and what it raised
    selected    \* the last class looked up in config, with its settings

configVars == <<environ, pc, module, selected>>

vars == <<httpVars, componentVars, configVars>>

\* The number of log records after which no logging request is modelled.
MaxLog == 2

----------------------------------------------------------------------------
(* JSON values.  A JSON string is the sequence of its characters, so that  *)
(* Python's substring test ('username' in "...") is computed, not assumed. *)

Null == [t |-> "null"]
Str(s) == [t |-> "str", s |-> s]
Num(n) == [t |-> "num", n |-> n]
Arr(a) == [t |-> "arr", a |-> a]
(* An object over the keys 'username' and 'password': the keys it holds    *)
(* and their values (val of a key it does not hold is never read).         *)
Obj(keys, val) == [t |-> "obj", keys |-> keys, val |-> val]

KeyChars ==
    [username |-> <<"u", "s", "e", "r", "n", "a", "m", "e">>,
     password |-> <<"p", "a", "s", "s", "w", "o", "r", "d">>]

alice == <<"a", "l", "i", "c", "e">>
hunter2 == <<"h", "u", "n", "t", "e", "r", "2">>

UsernameValues == {Null, Str(<<>>), Str(alice)}
PasswordValues == {Null, Str(<<>>), Str(hunter2)}

EmptyObject == Obj({}, [username |-> Null, password |-> Null])

JsonObjects ==
    {EmptyObject}
      \cup {Obj({"username"}, [username |-> u, password |-> Null]) :
                u \in UsernameValues}
      \cup {Obj({"password"}, [username |-> Null, password |-> p]) :
                p \in PasswordValues}
      \cup {Obj({"username", "password"}, [username |-> u, password |-> p]) :
                u \in UsernameValues, p \in PasswordValues}

JsonNonObjects ==
    {Null, Num(0), Num(5),
     Str(<<>>), Str(alice), Str(KeyChars.username),
     Str(KeyChars.username \o <<" ">> \o KeyChars.password),
     Arr(<<>>), Arr(<<Str(KeyChars.username)>>),
     Arr(<<Str(KeyChars.username), Str(KeyChars.password)>>)}

(* A request body: absent (no JSON content type), JSON content type with   *)
(* text that does not parse, or JSON content type with a parsed value.     *)
AbsentBody == [kind |-> "absent"]
MalformedBody == [kind |-> "malformed"]
JsonRequestBody(j) == [kind |-> "json", json |-> j]

Bodies ==
    {AbsentBody, MalformedBody}
      \cup {JsonRequestBody(j) : j \in JsonObjects \cup JsonNonObjects}

Methods == {"GET", "HEAD", "POST", "DELETE", "OPTIONS"}

(* A path is the sequence of its segments: "/" is <<>>, "/health" is       *)
(* <<"health">>, "/static/style.css" is <<"static", "style.css">>.         *)
Paths ==
    {<<>>, <<"health">>, <<"login">>, <<"components">>,
     <<"nonexistent-endpoint">>, <<"login", "reset">>,
     <<"static", "style.css">>}

(* datetime.utcnow().isoformat() as read by one request.                   *)
Timestamps == {"2024-01-01T00:00:00", "2024-01-01T00:00:01"}

(* request.get_json() on a request without a JSON content type returns     *)
(* None in Flask before 2.1 and raises UnsupportedMediaType from 2.1 on;   *)
(* the repository pins no version under src/.                              *)
FlaskBuilds == {"legacy", "current"}

\* The builds that differ on a body: only a body without a JSON content
\* type is read differently.
BuildsFor(body) == IF body.kind = "absent" THEN FlaskBuilds ELSE {"current"}

----------------------------------------------------------------------------
(* Python's operators on a parsed JSON value.                              *)

\* bool(data): None, 0, "", [] and {} are falsy.
Truthy(data) ==
    CASE data.t = "null" -> FALSE
      [] data.t = "num" -> data.n # 0
      [] data.t = "str" -> Len(data.s) > 0
      [] data.t = "arr" -> Len(data.a) > 0
      [] data.t = "obj" -> data.keys # {}

\* needle in haystack, for two str: needle occurs as a substring.
IsSubstring(needle, haystack) ==
    \E i \in 1..(Len(haystack) - Len(needle) + 1) :
        SubSeq(haystack, i, i + Len(needle) - 1) = needle

\* key in data: a key of a dict, an element of a list, a substring of a
\* str.  (An int is not iterable: see RaisesOnContains.)
Contains(data, key) ==
    CASE data.t = "obj" -> key \in data.keys
      [] data.t = "arr" -> \E i \in 1..Len(data.a) : data.a[i] = Str(KeyChars[key])
      [] data.t = "str" -> IsSubstring(KeyChars[key], data.s)
      [] OTHER -> FALSE

\* key in data raises TypeError when data is an int.
RaisesOnContains(data) == data.t = "num"

\* data.get(key) exists on a dict only; it gives None for a key not held.
HasGet(data) == data.t = "obj"
Get(data, key) == IF key \in data.keys THEN data.val[key] ELSE Null

----------------------------------------------------------------------------
(* Responses.                                                              *)

JsonBody(j) == [kind |-> "json", json |-> j]
HtmlBody(page) == [kind |-> "html", page |-> page]
FileBody(name) == [kind |-> "file", name |-> name]
EmptyBody == [kind |-> "empty"]

Response(body, status) == [status |-> status, body |-> body]

Info(msg) == [level |-> "INFO", msg |-> msg]
Error(msg) == [level |-> "ERROR", msg |-> msg]

(* What a view function does: the value it returns, the records it logs,   *)
(* the exception raised inside it (caught or not), and whether that        *)
(* exception left the function.                                            *)
Returns(r, logs) == [returned |-> r, logs |-> logs, exc |-> "none", escaped |-> FALSE]
Catches(e, r, logs) == [returned |-> r, logs |-> logs, exc |-> e, escaped |-> FALSE]
Escapes(e) == [returned |-> Response(EmptyBody, 0), logs |-> <<>>, exc |-> e, escaped |-> TRUE]

(* The outcome of a try body: a return value, or an exception.             *)
Return(r, logs) == [raised |-> FALSE, returned |-> r, logs |-> logs]
Raise(e) == [raised |-> TRUE, exc |-> e]

HTTPExceptions == {"BadRequest", "UnsupportedMediaType", "NotFound"}

\* An exception injected while the response data is built, or none.
Faults == {"none", "MemoryError"}

----------------------------------------------------------------------------
(* The view functions of register_routes.                                  *)

home == Returns(Response(HtmlBody("welcome"), 200), <<>>)

\* As health_check, had it reported the errors the service has logged.
health_check_degraded(timestamp) ==
    IF \E i \in 1..Len(log) : log[i].level = "ERROR"
    THEN Returns(Response(JsonBody([status |-> "unhealthy",
                                    timestamp |-> timestamp,
                                    service |-> "Electronics Lab Inventory LIMS"]),
                          503),
                 <<>>)
    ELSE Returns(Response(JsonBody([status |-> "healthy",
                                    timestamp |-> timestamp,
                                    service |-> "Electronics Lab Inventory LIMS"]),
                          200),
                 <<>>)

health_check(timestamp) ==
    Returns(Response(JsonBody([status |-> "healthy",
                               timestamp |-> timestamp,
                               service |-> "Electronics Lab Inventory LIMS"]),
                     200),
            <<>>)

\* request.get_json()
get_json(body, build) ==
    CASE body.kind = "json" -> Return(body.json, <<>>)
      [] body.kind = "malformed" -> Raise("BadRequest")
      [] body.kind = "absent" ->
            IF build = "legacy" THEN Return(Null, <<>>)
            ELSE Raise("UnsupportedMediaType")

\* As missing_credentials, had the check also asked for non-empty values.
missing_credentials_falsy(data) ==
    \/ ~Contains(data, "username")
    \/ ~Contains(data, "password")
    \/ (HasGet(data) /\ ~Truthy(Get(data, "username")))
    \/ (HasGet(data) /\ ~Truthy(Get(data, "password")))

\* As missing_credentials, had the two tests been joined by `and`.
missing_credentials_and(data) ==
    ~Contains(data, "username") /\ ~Contains(data, "password")

\* 'username' not in data or 'password' not in data
missing_credentials(data) ==
    ~Contains(data, "username") \/ ~Contains(data, "password")

\* As credentials_required, had the rejection been sent as 401.
credentials_required_401 ==
    Response(JsonBody([error |-> "Username and password required"]), 401)

credentials_required ==
    Response(JsonBody([error |-> "Username and password required"]), 400)

\* As response_data, had the token been issued for one password only.
response_data_checked(data) ==
    [success |-> TRUE,
     message |-> "Login successful",
     user |-> [id |-> 1, username |-> Get(data, "username"), role |-> "admin"],
     token |-> IF Get(data, "password") = Str(hunter2)
               THEN "dummy-jwt-token-replace-with-real-implementation"
               ELSE "guest"]

response_data(data) ==
    [success |-> TRUE,
     message |-> "Login successful",
     user |-> [id |-> 1, username |-> Get(data, "username"), role |-> "admin"],
     token |-> "dummy-jwt-token-replace-with-real-implementation"]

\* The try body of login.
login_try(body, build, fault) ==
    LET parsed == get_json(body, build) IN
    IF parsed.raised THEN Raise(parsed.exc)
    ELSE LET data == parsed.returned IN
         IF ~Truthy(data) THEN Return(credentials_required, <<>>)
         ELSE IF RaisesOnContains(data) THEN Raise("TypeError")
         ELSE IF missing_credentials(data) THEN Return(credentials_required, <<>>)
         ELSE IF ~HasGet(data) THEN Raise("AttributeError")
         ELSE IF fault # "none" THEN Raise(fault)
         ELSE Return(Response(JsonBody(response_data(data)), 200),
                     <<Info("Login attempt for user")>>)

server_error == Response(JsonBody([error |-> "Internal server error"]), 500)

\* As login, had the except clause let werkzeug's HTTP exceptions through.
login_http_uncaught(body, build, fault) ==
    LET r == login_try(body, build, fault) IN
    IF r.raised /\ r.exc \in HTTPExceptions THEN Escapes(r.exc)
    ELSE IF r.raised
    THEN Catches(r.exc, server_error, <<Error("Login error")>>)
    ELSE Returns(r.returned, r.logs)

\* login: the try body under `except Exception`.
login(body, build, fault) ==
    LET r == login_try(body, build, fault) IN
    IF r.raised
    THEN Catches(r.exc, server_error, <<Error("Login error")>>)
    ELSE Returns(r.returned, r.logs)

dummy_components ==
    << [id |-> 1, name |-> "Arduino Uno R3", part_number |-> "ARD-UNO-R3",
        category |-> "Microcontrollers", quantity |-> 15,
        location |-> "Shelf A1", unit_price |-> "25.99", low_threshold |-> 5],
       [id |-> 2, name |-> "Resistor 220Ω", part_number |-> "RES-220-1/4W",
        category |-> "Passive Components", quantity |-> 100,
        location |-> "Drawer B2", unit_price |-> "0.05", low_threshold |-> 20],
       [id |-> 3, name |-> "LED Red 5mm", part_number |-> "LED-RED-5MM",
        category |-> "LEDs", quantity |-> 3,
        location |-> "Drawer C1", unit_price |-> "0.15", low_threshold |-> 10] >>

\* As low_stock, had the comparison been written the other way round.
low_stock_reversed(component) == component.quantity >= component.low_threshold

\* component['quantity'] <= component['low_threshold']
low_stock(component) == component.quantity <= component.low_threshold

\* component['low_stock'] = ...: the item with one more key.
add_low_stock(component) ==
    [k \in DOMAIN component \cup {"low_stock"} |->
        IF k = "low_stock" THEN low_stock(component) ELSE component[k]]

\* for component in dummy_components: component['low_stock'] = ...
add_low_stock_warnings(components) ==
    [i \in 1..Len(components) |-> add_low_stock(components[i])]

\* As low_stock_count, had the sum dropped its condition.
low_stock_count_all(components) == Len(components)

\* sum(1 for c in dummy_components if c['low_stock'])
low_stock_count(components) ==
    Cardinality({i \in 1..Len(components) : components[i].low_stock})

\* Earlier retrievals, as the logger recorded them.
Retrievals == Cardinality({i \in 1..Len(log) : log[i] = Info("Retrieved components")})

\* As get_components_try, had dummy_components been a module-level list
\* that each call extends with its annotated items.
get_components_try_shared(fault) ==
    LET once == add_low_stock_warnings(dummy_components)
        components == IF Retrievals = 0 THEN once ELSE once \o once
    IN
    IF fault # "none" THEN Raise(fault)
    ELSE Return(Response(JsonBody([success |-> TRUE,
                                   components |-> components,
                                   total_count |-> Len(components),
                                   low_stock_count |-> low_stock_count(components)]),
                         200),
                <<Info("Retrieved components")>>)

\* As get_components_try, had the inventory been kept for users whose
\* login the service has accepted.
get_components_try_gated(fault) ==
    LET components == add_low_stock_warnings(dummy_components) IN
    IF fault # "none" THEN Raise(fault)
    ELSE IF \A i \in 1..Len(log) : log[i] # Info("Login attempt for user")
    THEN Return(Response(JsonBody([error |-> "Login required"]), 401), <<>>)
    ELSE Return(Response(JsonBody([success |-> TRUE,
                                   components |-> components,
                                   total_count |-> Len(components),
                                   low_stock_count |-> low_stock_count(components)]),
                         200),
                <<Info("Retrieved components")>>)

\* The try body of get_components.
get_components_try(fault) ==
    LET components == add_low_stock_warnings(dummy_components) IN
    IF fault # "none" THEN Raise(fault)
    ELSE Return(Response(JsonBody([success |-> TRUE,
                                   components |-> components,
                                   total_count |-> Len(components),
                                   low_stock_count |-> low_stock_count(components)]),
                         200),
                <<Info("Retrieved components")>>)

\* get_components: the try body under `except Exception`.
get_components(fault) ==
    LET r == get_components_try(fault) IN
    IF r.raised
    THEN Catches(r.exc, server_error, <<Error("Components retrieval error")>>)
    ELSE Returns(r.returned, r.logs)

\* As not_found, had the handler answered with werkzeug's own page.
not_found_default == Response(HtmlBody("404 Not Found"), 404)

\* @app.errorhandler(404)
not_found == Response(JsonBody([error |-> "Endpoint not found"]), 404)

\* @app.errorhandler(500)
internal_error == Response(JsonBody([error |-> "Internal server error"]), 500)

----------------------------------------------------------------------------
(* Routing.  The URL map create_app ends up with: the four rules of        *)
(* register_routes, and the rule /static/<path:filename> that the          *)
(* constructor call Flask(__name__) adds, since it leaves static_folder at *)
(* its default 'static' (whether or not that folder exists on disk).       *)

url_map ==
    {[rule |-> <<>>, methods |-> {"GET"}, endpoint |-> "home"],
     [rule |-> <<"health">>, methods |-> {"GET"}, endpoint |-> "health_check"],
     [rule |-> <<"login">>, methods |-> {"POST"}, endpoint |-> "login"],
     [rule |-> <<"components">>, methods |-> {"GET"}, endpoint |-> "get_components"],
     [rule |-> <<"static", "<path:filename>">>, methods |-> {"GET"}, endpoint |-> "static"]}

\* A rule matches a path segment for segment; a trailing <path:...>
\* converter matches one or more segments.
Matches(rule, path) ==
    IF Len(rule) > 0 /\ rule[Len(rule)] = "<path:filename>"
    THEN /\ Len(path) >= Len(rule)
         /\ SubSeq(path, 1, Len(rule) - 1) = SubSeq(rule, 1, Len(rule) - 1)
    ELSE path = rule

NoRule == [rule |-> <<>>, methods |-> {}, endpoint |-> "none"]

Match(path) ==
    IF \E r \in url_map : Matches(r.rule, path)
    THEN CHOOSE r \in url_map : Matches(r.rule, path)
    ELSE NoRule

\* Flask adds HEAD to a rule that takes GET, and OPTIONS to every rule.
AllowedMethods(r) ==
    r.methods \cup (IF "GET" \in r.methods THEN {"HEAD"} ELSE {}) \cup {"OPTIONS"}

\* What the dispatcher does with a request: raise NotFound, raise
\* MethodNotAllowed, answer OPTIONS itself, or call the rule's endpoint.
Route(request) ==
    LET r == Match(request.path) IN
    IF r = NoRule THEN "not_found"
    ELSE IF request.method \notin AllowedMethods(r) THEN "method_not_allowed"
    ELSE IF request.method = "OPTIONS" THEN "options"
    ELSE r.endpoint

\* The response to an HTTP exception no error handler is registered for.
default_error_page(e) ==
    CASE e = "BadRequest" -> Response(HtmlBody("400 Bad Request"), 400)
      [] e = "UnsupportedMediaType" -> Response(HtmlBody("415 Unsupported Media Type"), 415)
      [] e = "MethodNotAllowed" -> Response(HtmlBody("405 Method Not Allowed"), 405)

\* What Flask makes of an exception that left a view function.
handle_user_exception(e) ==
    IF e = "NotFound" THEN not_found
    ELSE IF e \in HTTPExceptions THEN default_error_page(e)
    ELSE internal_error

\* The response as sent: a HEAD response keeps its status, not its body.
Wire(method, r) == IF method = "HEAD" THEN Response(EmptyBody, r.status) ELSE r

----------------------------------------------------------------------------
(* Python values of the Component model (models.py).  A Decimal and a      *)
(* float are kept apart, both counted in hundredths, so that float(...)    *)
(* is a conversion of type; a datetime is the clock reading it was made at.*)

PyNone == [t |-> "None"]
PyBool(b) == [t |-> "bool", b |-> b]
Decimal(hundredths) == [t |-> "Decimal", hundredths |-> hundredths]
Float(hundredths) == [t |-> "float", hundredths |-> hundredths]
DateTime(at) == [t |-> "datetime", at |-> at]
IsoFormat(at) == [t |-> "str", isoformat |-> at]
Dict(d) == [t |-> "dict", d |-> d]

\* bool(x) for the attribute values to_dict tests.
PyTruthy(x) ==
    CASE x.t = "None" -> FALSE
      [] x.t = "Decimal" -> x.hundredths # 0
      [] x.t = "datetime" -> TRUE
      [] x.t = "str" -> x.text # ""

\* float(x) of a Decimal.
PyFloat(x) == Float(x.hundredths)

NoCall == [op |-> "none", args |-> <<>>, raised |-> "none", result |-> PyNone]

\* Component.__init__, before the session gives the row an id and
\* timestamps (stamp None), or as loaded with them (stamp a datetime).
NewComponent(quantity, unit_price, low_threshold, stamp) ==
    [id |-> IF stamp = PyNone THEN PyNone ELSE [t |-> "int", n |-> 1],
     name |-> "Arduino Uno R3",
     part_number |-> "ARD-UNO-R3",
     category |-> "Microcontrollers",
     quantity |-> quantity,
     location |-> "Shelf A1",
     unit_price |-> unit_price,
     low_threshold |-> low_threshold,
     description |-> PyNone,
     manufacturer |-> PyNone,
     datasheet_url |-> PyNone,
     created_at |-> stamp,
     updated_at |-> stamp]

\* The service never builds a Component: while requests are served the
\* Component state stays as it is here.
ComponentIdle ==
    /\ self = NewComponent(0, PyNone, 0, PyNone)
    /\ before = self
    /\ call = NoCall
    /\ now = 0

(* Values of config.py: a str kept whole, a str kept as its characters    *)
(* (those int() is to parse), an int, and a variable that is not set.      *)
Text(text) == [t |-> "str", text |-> text]
Chars(chars) == [t |-> "str", chars |-> chars]
PyInt(n) == [t |-> "int", n |-> n]
Unset == [t |-> "unset"]
Undefined == [t |-> "undefined"]

EnvironmentVariables ==
    {"SECRET_KEY", "JWT_SECRET_KEY", "DATABASE_URL", "ITEMS_PER_PAGE", "MAX_ITEMS_PER_PAGE"}

NoModule ==
    [Config |-> Undefined, DevelopmentConfig |-> Undefined,
     TestingConfig |-> Undefined, ProductionConfig |-> Undefined,
     config |-> Undefined, raised |-> "none", message |-> ""]

NoSelection == [name |-> "none", settings |-> Undefined]

\* The service never imports config.py: while requests are served, and
\* while a Component is used, the module stays unimported.
ConfigIdle ==
    /\ environ = [name \in EnvironmentVariables |-> Unset]
    /\ pc = "unimported"
    /\ module = NoModule
    /\ selected = NoSelection

----------------------------------------------------------------------------
(* The state machine.                                                      *)

\* A body for requests that are not POST /login (nothing reads it there).
SampleCredentials ==
    JsonRequestBody(Obj({"username", "password"},
                        [username |-> Str(alice), password |-> Str(hunter2)]))

\* Every method on every path without a body; every method on /login and
\* on an unrouted path with a body as well; POST /login with every body.
Requests ==
    {[method |-> m, path |-> p, body |-> AbsentBody] : m \in Methods, p \in Paths}
      \cup {[method |-> m, path |-> p, body |-> SampleCredentials] :
                m \in Methods, p \in {<<"login">>, <<"nonexistent-endpoint">>}}
      \cup {[method |-> "POST", path |-> <<"login">>, body |-> b] : b \in Bodies}

\* The requests the dispatcher hands to each endpoint or error path.
Routed(target) == {q \in Requests : Route(q) = target}
HomeRequests == Routed("home")
HealthRequests == Routed("health_check")
LoginRequests == Routed("login")
ComponentsRequests == Routed("get_components")
StaticRequests == Routed("static")
OptionsRequests == Routed("options")
MethodNotAllowedRequests == Routed("method_not_allowed")
NotFoundRequests == Routed("not_found")

NoRequest == [method |-> "none", path |-> <<>>, body |-> AbsentBody]
NoResponse == Response(EmptyBody, 0)
NoLogin == [username |-> Null, password |-> Null, resp |-> NoResponse, any |-> FALSE]

HttpInit ==
    /\ log = <<>>
    /\ req = NoRequest
    /\ returned = NoResponse
    /\ resp = NoResponse
    /\ ran = [view |-> "none", exc |-> "none", escaped |-> FALSE]
    /\ lastLogin = NoLogin
    /\ loginRefused = FALSE
    /\ baseline = Wire("GET", get_components("none").returned)

Init ==
    /\ HttpInit
    /\ ComponentIdle
    /\ ConfigIdle

\* The exchange now being replaced was a login that succeeded.
WasLogin == ran.view = "login" /\ returned.status = 200

\* One exchange: the view v ran (or none) with the outcome out.
Exchange(request, v, out) ==
    LET final == IF out.escaped THEN handle_user_exception(out.exc)
                 ELSE out.returned
    IN /\ Len(log) + Len(out.logs) <= MaxLog
       /\ log' = log \o out.logs
       /\ req' = request
       /\ returned' = final
       /\ resp' = Wire(request.method, final)
       /\ ran' = [view |-> v, exc |-> out.exc, escaped |-> out.escaped]
       /\ lastLogin' =
            IF WasLogin
            THEN [username |-> Get(req.body.json, "username"),
                  password |-> Get(req.body.json, "password"),
                  resp |-> resp, any |-> TRUE]
            ELSE lastLogin
       /\ loginRefused' = (loginRefused \/ (v = "login" /\ final.status = 400))
       /\ UNCHANGED baseline
       /\ UNCHANGED <<componentVars, configVars>>

Home ==
    \E q \in HomeRequests :
        /\ Route(q) = "home"
        /\ Exchange(q, "home", home)

HealthCheck ==
    \E q \in HealthRequests, timestamp \in Timestamps :
        /\ Route(q) = "health_check"
        /\ Exchange(q, "health_check", health_check(timestamp))

Login(faults) ==
    \E q \in LoginRequests, fault \in faults :
      \E build \in BuildsFor(q.body) :
        /\ Route(q) = "login"
        /\ Exchange(q, "login", login(q.body, build, fault))

GetComponents(faults) ==
    \E q \in ComponentsRequests, fault \in faults :
        /\ Route(q) = "get_components"
        /\ Exchange(q, "get_components", get_components(fault))

\* send_static_file: the file, or NotFound when the folder holds none.
send_static_file(path, exists) ==
    IF exists THEN Returns(Response(FileBody(path), 200), <<>>)
    ELSE Escapes("NotFound")

StaticFile ==
    \E q \in StaticRequests, exists \in BOOLEAN :
        /\ Route(q) = "static"
        /\ Exchange(q, "static", send_static_file(q.path, exists))

\* The automatic OPTIONS response: 200, an Allow header, no body.
AutomaticOptions ==
    \E q \in OptionsRequests :
        /\ Route(q) = "options"
        /\ Exchange(q, "none", Returns(Response(EmptyBody, 200), <<>>))

MethodNotAllowed ==
    \E q \in MethodNotAllowedRequests :
        /\ Route(q) = "method_not_allowed"
        /\ Exchange(q, "none", Returns(default_error_page("MethodNotAllowed"), <<>>))

NotFound ==
    \E q \in NotFoundRequests :
        /\ Route(q) = "not_found"
        /\ Exchange(q, "none", Returns(not_found, <<>>))

Next ==
    \/ Home
    \/ HealthCheck
    \/ Login({"none"})
    \/ GetComponents({"none"})
    \/ StaticFile
    \/ AutomaticOptions
    \/ MethodNotAllowed
    \/ NotFound

Spec == Init /\ [][Next]_vars

\* The same service with an exception injected into the try bodies.
NextFault ==
    \/ Home
    \/ HealthCheck
    \/ Login(Faults)
    \/ GetComponents(Faults)
    \/ StaticFile
    \/ AutomaticOptions
    \/ MethodNotAllowed
    \/ NotFound

SpecFault == Init /\ [][NextFault]_vars

TypeOK ==
    /\ Len(log) <= MaxLog
    /\ req \in Requests \cup {NoRequest}

----------------------------------------------------------------------------
(* Properties of the HTTP service.                                         *)

RegisteredPaths == {<<>>, <<"health">>, <<"login">>, <<"components">>}

Served == req # NoRequest
IsPostLogin == req.method = "POST" /\ req.path = <<"login">>
IsGetComponents == req.method = "GET" /\ req.path = <<"components">>
IsGetHealth == req.method = "GET" /\ req.path = <<"health">>

\* The body of the last request is a JSON object.
HasObjectBody == req.body.kind = "json" /\ req.body.json.t = "obj"
\* ... holding both keys.
HasBothKeys == HasObjectBody /\ {"username", "password"} \subseteq req.body.json.keys

\* C1: a POST /login whose JSON body is an object holding both 'username'
\* and 'password' (whatever their values) is answered 200 with success
\* true, the message 'Login successful', a token, and the submitted
\* username value under user.username.
C1_LoginSuccess ==
    (IsPostLogin /\ HasBothKeys) =>
        /\ resp.status = 200
        /\ resp.body.kind = "json"
        /\ resp.body.json.success = TRUE
        /\ resp.body.json.message = "Login successful"
        /\ "token" \in DOMAIN resp.body.json
        /\ resp.body.json.user.username = req.body.json.val.username

\* C1 happens: a login with a null username and an empty password succeeded.
C1_Witness ==
    /\ IsPostLogin /\ HasBothKeys
    /\ req.body.json.val.username = Null
    /\ req.body.json.val.password = Str(<<>>)
    /\ resp.status = 200

\* C2: a POST /login whose JSON body is an object lacking 'username' or
\* lacking 'password' (the empty object included) is answered 400 with
\* {error: 'Username and password required'}, never 200.
C2_LoginMissingCredentials ==
    (IsPostLogin /\ HasObjectBody /\ ~HasBothKeys) =>
        /\ resp.status = 400
        /\ resp.status # 200
        /\ resp.body = JsonBody([error |-> "Username and password required"])

\* C2 happens: a login holding a username and no password was refused.
C2_Witness ==
    /\ IsPostLogin /\ HasObjectBody
    /\ req.body.json.keys = {"username"}
    /\ resp.status = 400

\* C3: every GET /components response is 200 and lists the same three
\* items in the same order (ids 1, 2, 3), each with low_stock equal to
\* quantity <= low_threshold: true for the LED, false for the other two.
C3_ComponentsFixed ==
    IsGetComponents =>
        /\ resp.status = 200
        /\ resp.body.kind = "json"
        /\ LET cs == resp.body.json.components IN
           /\ Len(cs) = 3
           /\ <<cs[1].id, cs[2].id, cs[3].id>> = <<1, 2, 3>>
           /\ <<cs[1].name, cs[2].name, cs[3].name>>
                = <<"Arduino Uno R3", "Resistor 220Ω", "LED Red 5mm">>
           /\ <<cs[1].quantity, cs[2].quantity, cs[3].quantity>> = <<15, 100, 3>>
           /\ <<cs[1].low_threshold, cs[2].low_threshold, cs[3].low_threshold>>
                = <<5, 20, 10>>
           /\ \A i \in 1..3 : cs[i].low_stock = (cs[i].quantity <= cs[i].low_threshold)
           /\ <<cs[1].low_stock, cs[2].low_stock, cs[3].low_stock>>
                = <<FALSE, FALSE, TRUE>>

\* C3 happens: a GET /components was answered.
C3_Witness ==
    /\ IsGetComponents
    /\ ran.view = "get_components"
    /\ resp.body.kind = "json"
    /\ resp.body.json.components[3].low_stock

\* C4: in every GET /components response total_count is the number of
\* entries listed (3) and low_stock_count the number of entries whose
\* low_stock is true (1).
C4_CountsMatchList ==
    IsGetComponents =>
        LET j == resp.body.json IN
        /\ j.total_count = Len(j.components)
        /\ j.total_count = 3
        /\ j.low_stock_count =
              Cardinality({i \in 1..Len(j.components) : j.components[i].low_stock})
        /\ j.low_stock_count = 1

\* C4 happens: a GET /components response carrying both counters.
C4_Witness ==
    /\ IsGetComponents
    /\ resp.status = 200
    /\ {"total_count", "low_stock_count"} \subseteq DOMAIN resp.body.json

\* C5: after any sequence of requests, GET /components is answered exactly
\* as it is when it is the very first request.
C5_ComponentsStateless == IsGetComponents => resp = baseline

\* C5 happens: a GET /components served after an earlier GET /components
\* and at least one other logged request.
C5_Witness ==
    /\ IsGetComponents
    /\ resp.status = 200
    /\ Len(log) >= 2
    /\ log[1] = Info("Retrieved components")

\* C6: every GET /health response, after any earlier requests, is 200 with
\* status 'healthy', the service name and a timestamp field.
C6_HealthAlwaysHealthy ==
    IsGetHealth =>
        /\ resp.status = 200
        /\ resp.body.kind = "json"
        /\ resp.body.json.status = "healthy"
        /\ resp.body.json.service = "Electronics Lab Inventory LIMS"
        /\ "timestamp" \in DOMAIN resp.body.json

\* C6 happens: a GET /health served after a request that logged an error.
C6_Witness ==
    /\ IsGetHealth
    /\ ran.view = "health_check"
    /\ \E i \in 1..Len(log) : log[i].level = "ERROR"

\* C7 as stated: every request whose path is none of /, /health, /login,
\* /components is answered 404 with exactly {error: 'Endpoint not found'},
\* and no view function runs.
C7_Original ==
    (Served /\ req.path \notin RegisteredPaths) =>
        /\ resp = Response(JsonBody([error |-> "Endpoint not found"]), 404)
        /\ ran.view = "none"

\* The path matches no rule of the URL map: none of the four registered
\* paths, and nothing under /static/.
Unrouted ==
    /\ req.path \notin RegisteredPaths
    /\ ~(Len(req.path) >= 2 /\ req.path[1] = "static")

\* C7, amended: every request whose path matches no URL rule (the four
\* registered paths and Flask's own /static/<path:filename>) is answered
\* 404 and no view function runs; the body is exactly
\* {error: 'Endpoint not found'}, except that a HEAD response has no body.
C7_UnroutedNotFound ==
    (Served /\ Unrouted) =>
        /\ resp.status = 404
        /\ ran.view = "none"
        /\ returned = Response(JsonBody([error |-> "Endpoint not found"]), 404)
        /\ resp.body = IF req.method = "HEAD" THEN EmptyBody
                       ELSE JsonBody([error |-> "Endpoint not found"])

\* C7 happens: a DELETE to an unrouted path was answered.
C7_Witness ==
    /\ Served /\ Unrouted
    /\ req.method = "DELETE"
    /\ resp.status = 404

\* The methods a registered path takes, as written in register_routes.
RegisteredMethods(path) == IF path = <<"login">> THEN {"POST"} ELSE {"GET"}

\* C8 as stated: every response status is 200, 400, 404 or 500; 400 occurs
\* only on /login with missing fields and 404 only for unmatched routes;
\* a registered path asked with a method it is not registered for also
\* falls into one of these cases.
C8_Original ==
    Served =>
        /\ resp.status \in {200, 400, 404, 500}
        /\ resp.status = 400 => (IsPostLogin /\ ~HasBothKeys)
        /\ resp.status = 404 => req.path \notin RegisteredPaths

\* C8, amended: there is a fourth error outcome, 405.  For every request
\* to a registered path, to a path under /static/ or to a path matching no
\* URL rule, the status is 200, 400, 404, 405 or 500; 400 occurs only on
\* POST /login without both fields, 404 only for paths other than the four
\* registered ones, and a registered path is answered 405 exactly when
\* asked with a method other than its own (OPTIONS, and HEAD where GET is
\* registered, excepted).
C8_StatusCodes ==
    Served =>
        /\ resp.status \in {200, 400, 404, 405, 500}
        /\ resp.status = 400 => (IsPostLogin /\ ~HasBothKeys)
        /\ resp.status = 404 => req.path \notin RegisteredPaths
        /\ req.path \in RegisteredPaths =>
             (resp.status = 405 <=>
                /\ req.method \notin RegisteredMethods(req.path) \cup {"OPTIONS"}
                /\ ~(req.method = "HEAD" /\ "GET" \in RegisteredMethods(req.path)))

\* C8 happens: POST /health, a registered path with a method it does not take.
C8_Witness ==
    /\ req.path = <<"health">>
    /\ req.method = "POST"
    /\ resp.status = 405

\* C9: an exception raised inside the body of login or get_components is
\* caught there: the handler returns 500 with {error: 'Internal server
\* error'}, the response status is 500 and nothing escapes the handler.
C9_HandlerFaultsCaught ==
    (ran.view \in {"login", "get_components"} /\ ran.exc # "none") =>
        /\ returned = Response(JsonBody([error |-> "Internal server error"]), 500)
        /\ resp.status = 500
        /\ ~ran.escaped

\* C9 happens: get_components caught an exception after login had caught
\* one raised while the request JSON was read.
C9_Witness ==
    /\ ran.view = "get_components"
    /\ ran.exc # "none"
    /\ resp.status = 500
    /\ Len(log) >= 2
    /\ log[1] = Error("Login error")

\* C10: two POST /login requests with both keys, the same username value
\* and any passwords get the same response: 200, user id 1, role 'admin'
\* and the same fixed token.
C10_PasswordIgnored ==
    (/\ IsPostLogin /\ HasBothKeys
     /\ lastLogin.any
     /\ lastLogin.username = req.body.json.val.username) =>
        /\ resp = lastLogin.resp
        /\ resp.status = 200
        /\ resp.body.json.user.id = 1
        /\ resp.body.json.user.role = "admin"
        /\ resp.body.json.token = "dummy-jwt-token-replace-with-real-implementation"

\* C10 happens: the same username logged in twice with different passwords.
C10_Witness ==
    /\ IsPostLogin /\ HasBothKeys
    /\ lastLogin.any
    /\ lastLogin.username = req.body.json.val.username
    /\ lastLogin.password # req.body.json.val.password
    /\ resp.status = 200

\* C11: GET /components is answered 200 with the full three-item list
\* whether or not a POST /login came before it, accepted (200) or refused
\* (400): no login leaves state that a later request consults.
C11_InventoryNotGated ==
    IsGetComponents =>
        /\ resp.status = 200
        /\ resp.body.kind = "json"
        /\ resp.body.json.success = TRUE
        /\ Len(resp.body.json.components) = 3
        /\ {resp.body.json.components[i].part_number : i \in 1..3}
             = {"ARD-UNO-R3", "RES-220-1/4W", "LED-RED-5MM"}

\* C11 happens: a GET /components served after one login was refused and
\* another accepted.
C11_Witness ==
    /\ IsGetComponents
    /\ loginRefused
    /\ lastLogin.any
    /\ resp.status = 200

\* The body of the last request parsed as JSON.
HasJsonBody == req.body.kind = "json"

\* C16: a POST /login whose parsed JSON body is not an object holding both
\* keys (null, a number, a string or an array, also a string or array that
\* merely contains the texts 'username' and 'password') is answered 400
\* with {error: 'Username and password required'}, never 200 and never 500.
C16_NonObjectRefused ==
    (IsPostLogin /\ HasJsonBody /\ ~HasBothKeys) =>
        /\ resp = Response(JsonBody([error |-> "Username and password required"]), 400)
        /\ resp.status # 200
        /\ resp.status # 500

----------------------------------------------------------------------------
(* The Component model (models.py).                                        *)

\* The largest quantity, and the latest clock reading, that are modelled.
MaxQuantity == 3
MaxClock == 3

Quantities == 0..MaxQuantity
Thresholds == {0, 2, 5}
UnitPrices == {PyNone, Decimal(0), Decimal(250)}
Stamps == {PyNone, DateTime(0)}
\* The arguments tried: negative, zero, within stock and beyond it.
Amounts == (0 - 1)..(MaxQuantity + 1)

\* As is_low_stock, had the comparison been strict.
is_low_stock_strict(c) == c.quantity < c.low_threshold

is_low_stock(c) == c.quantity <= c.low_threshold

get_total_value(c) ==
    IF c.unit_price = PyNone THEN PyNone
    ELSE PyFloat(Decimal(c.quantity * c.unit_price.hundredths))

to_dict(c) ==
    [id |-> c.id,
     name |-> c.name,
     part_number |-> c.part_number,
     category |-> c.category,
     quantity |-> c.quantity,
     location |-> c.location,
     unit_price |-> IF PyTruthy(c.unit_price) THEN PyFloat(c.unit_price) ELSE PyNone,
     low_threshold |-> c.low_threshold,
     description |-> c.description,
     manufacturer |-> c.manufacturer,
     datasheet_url |-> c.datasheet_url,
     created_at |-> IF PyTruthy(c.created_at) THEN IsoFormat(c.created_at.at) ELSE PyNone,
     updated_at |-> IF PyTruthy(c.updated_at) THEN IsoFormat(c.updated_at.at) ELSE PyNone,
     low_stock |-> is_low_stock(c),
     total_value |-> get_total_value(c)]

(* How a method that assigns ends: it returns None or raises ValueError,   *)
(* and leaves the object with the attributes given.                        *)
Done(c) == [raised |-> "none", message |-> "", component |-> c]
ValueError(message, c) == [raised |-> "ValueError", message |-> message, component |-> c]

\* As update_quantity, had it also kept the threshold below the new quantity.
update_quantity_clamping(c, new_quantity, utcnow) ==
    IF new_quantity < 0 THEN ValueError("Quantity cannot be negative", c)
    ELSE Done([c EXCEPT !.quantity = new_quantity,
                        !.low_threshold = IF @ > new_quantity THEN new_quantity ELSE @,
                        !.updated_at = DateTime(utcnow)])

update_quantity(c, new_quantity, utcnow) ==
    IF new_quantity < 0 THEN ValueError("Quantity cannot be negative", c)
    ELSE Done([c EXCEPT !.quantity = new_quantity,
                        !.updated_at = DateTime(utcnow)])

\* As add_stock, had the check followed the assignments.
add_stock_checked_late(c, amount, utcnow) ==
    LET d == [c EXCEPT !.quantity = @ + amount, !.updated_at = DateTime(utcnow)] IN
    IF amount < 0 THEN ValueError("Cannot add negative stock", d)
    ELSE Done(d)

add_stock(c, amount, utcnow) ==
    IF amount < 0 THEN ValueError("Cannot add negative stock", c)
    ELSE Done([c EXCEPT !.quantity = @ + amount,
                        !.updated_at = DateTime(utcnow)])

\* As remove_stock, without the check against the current quantity.
remove_stock_unchecked(c, amount, utcnow) ==
    IF amount < 0 THEN ValueError("Cannot remove negative stock", c)
    ELSE Done([c EXCEPT !.quantity = @ - amount,
                        !.updated_at = DateTime(utcnow)])

remove_stock(c, amount, utcnow) ==
    IF amount < 0 THEN ValueError("Cannot remove negative stock", c)
    ELSE IF amount > c.quantity
    THEN ValueError("Cannot remove more stock than available", c)
    ELSE Done([c EXCEPT !.quantity = @ - amount,
                        !.updated_at = DateTime(utcnow)])

InitComponent ==
    /\ HttpInit
    /\ ConfigIdle
    /\ \E quantity \in Quantities, unit_price \in UnitPrices,
          low_threshold \in Thresholds, stamp \in Stamps :
            self = NewComponent(quantity, unit_price, low_threshold, stamp)
    /\ before = self
    /\ call = NoCall
    /\ now = 0

\* One method call: time has passed since the last one.
MethodCall(op, args, raised, result, c) ==
    /\ now' = now + 1
    /\ before' = self
    /\ self' = c
    /\ call' = [op |-> op, args |-> args, raised |-> raised, result |-> result]
    /\ UNCHANGED <<httpVars, configVars>>

\* A method that assigns, called with one argument.
Assigning(op, arg, out) ==
    /\ out.component.quantity <= MaxQuantity
    /\ MethodCall(op, <<arg>>, out.raised, PyNone, out.component)

UpdateQuantity ==
    /\ now < MaxClock
    /\ \E new_quantity \in Amounts :
        Assigning("update_quantity", new_quantity,
                  update_quantity(self, new_quantity, now + 1))

AddStock ==
    /\ now < MaxClock
    /\ \E amount \in Amounts :
        Assigning("add_stock", amount, add_stock(self, amount, now + 1))

RemoveStock ==
    /\ now < MaxClock
    /\ \E amount \in Amounts :
        Assigning("remove_stock", amount, remove_stock(self, amount, now + 1))

IsLowStock ==
    /\ now < MaxClock
    /\ MethodCall("is_low_stock", <<>>, "none", PyBool(is_low_stock(self)), self)

GetTotalValue ==
    /\ now < MaxClock
    /\ MethodCall("get_total_value", <<>>, "none", get_total_value(self), self)

ToDict ==
    /\ now < MaxClock
    /\ MethodCall("to_dict", <<>>, "none", Dict(to_dict(self)), self)

NextComponent ==
    \/ UpdateQuantity
    \/ AddStock
    \/ RemoveStock
    \/ IsLowStock
    \/ GetTotalValue
    \/ ToDict

SpecComponent == InitComponent /\ [][NextComponent]_vars

----------------------------------------------------------------------------
(* The configuration module (config.py), imported statement by statement.  *)

\* The environments tried: each secret unset, empty or set; the page sizes
\* unset, a number, or text that is no number.
SecretValues == {Unset, Text(""), Text("s3cret")}
JwtSecretValues == {Unset, Text(""), Text("jwt-s3cret")}
DatabaseUrls == {Unset, Text("postgresql://lims")}
PageSizes == {Unset, Chars(<<"5", "0">>), Chars(<<"a", "b", "c">>), Chars(<<>>)}
MaxPageSizes == {Unset, Chars(<<"2", "0", "0">>)}

Environments ==
    {[SECRET_KEY |-> s, JWT_SECRET_KEY |-> j, DATABASE_URL |-> d,
      ITEMS_PER_PAGE |-> i, MAX_ITEMS_PER_PAGE |-> m] :
        s \in SecretValues, j \in JwtSecretValues, d \in DatabaseUrls,
        i \in PageSizes, m \in MaxPageSizes}

\* os.environ.get(key, default); the default is None when not given.
environ_get(key, default) ==
    IF environ[key] = Unset THEN default ELSE environ[key]

\* x or y
Or(x, y) == IF PyTruthy(x) THEN x ELSE y

Digits == <<"0", "1", "2", "3", "4", "5", "6", "7", "8", "9">>
IsDigit(c) == \E i \in DOMAIN Digits : Digits[i] = c
DigitValue(c) == (CHOOSE i \in DOMAIN Digits : Digits[i] = c) - 1

RECURSIVE DecimalValue(_)
DecimalValue(chars) ==
    IF chars = <<>> THEN 0
    ELSE 10 * DecimalValue(SubSeq(chars, 1, Len(chars) - 1))
            + DigitValue(chars[Len(chars)])

\* int(x), of an int or of the text of a variable: signs, blanks and
\* underscores do not occur in the texts tried.
int(x) ==
    IF x.t = "int" THEN [raised |-> "none", value |-> x]
    ELSE IF x.chars # <<>> /\ \A i \in DOMAIN x.chars : IsDigit(x.chars[i])
    THEN [raised |-> "none", value |-> PyInt(DecimalValue(x.chars))]
    ELSE [raised |-> "ValueError", value |-> PyNone]

(* How a class body ends: the class is bound with these attributes, or     *)
(* the body raised and the import of the module ends there.                *)
Bound(attributes) == [raised |-> "none", message |-> "", attributes |-> attributes]
BodyRaises(message) == [raised |-> "ValueError", message |-> message, attributes |-> Undefined]

\* class C(base): the attributes of the base, but for those the body binds.
Subclass(base, body) ==
    [name \in DOMAIN base \cup DOMAIN body |->
        IF name \in DOMAIN body THEN body[name] ELSE base[name]]

\* The timedelta, CORS and upload attributes are constants or reads of
\* the environment that cannot fail; they are left out.
Config ==
    LET ITEMS_PER_PAGE == int(environ_get("ITEMS_PER_PAGE", PyInt(20)))
        MAX_ITEMS_PER_PAGE == int(environ_get("MAX_ITEMS_PER_PAGE", PyInt(100)))
    IN  IF ITEMS_PER_PAGE.raised # "none" \/ MAX_ITEMS_PER_PAGE.raised # "none"
        THEN BodyRaises("invalid literal for int() with base 10")
        ELSE Bound(
            [SECRET_KEY |-> Or(environ_get("SECRET_KEY", PyNone),
                               Text("dev-secret-key-change-in-production")),
             SQLALCHEMY_DATABASE_URI |-> Or(environ_get("DATABASE_URL", PyNone),
                                            Text("sqlite:///lims.db")),
             SQLALCHEMY_TRACK_MODIFICATIONS |-> PyBool(FALSE),
             SQLALCHEMY_ECHO |-> PyBool(FALSE),
             JWT_SECRET_KEY |-> Or(environ_get("JWT_SECRET_KEY", PyNone),
                                   Text("jwt-secret-change-in-production")),
             ITEMS_PER_PAGE |-> ITEMS_PER_PAGE.value,
             MAX_ITEMS_PER_PAGE |-> MAX_ITEMS_PER_PAGE.value])

DevelopmentConfig(base) ==
    Bound(Subclass(base, [DEBUG |-> PyBool(TRUE), SQLALCHEMY_ECHO |-> PyBool(TRUE)]))

TestingConfig(base) ==
    Bound(Subclass(base, [TESTING |-> PyBool(TRUE),
                          SQLALCHEMY_DATABASE_URI |-> Text("sqlite:///:memory:"),
                          WTF_CSRF_ENABLED |-> PyBool(FALSE)]))

ProductionConfig(base) ==
    LET SECRET_KEY == environ_get("SECRET_KEY", PyNone)
        JWT_SECRET_KEY == environ_get("JWT_SECRET_KEY", PyNone)
    IN  IF ~PyTruthy(SECRET_KEY)
        THEN BodyRaises("No SECRET_KEY set for production environment")
        ELSE IF ~PyTruthy(JWT_SECRET_KEY)
        THEN BodyRaises("No JWT_SECRET_KEY set for production environment")
        ELSE Bound(Subclass(base,
                [DEBUG |-> PyBool(FALSE),
                 SQLALCHEMY_ECHO |-> PyBool(FALSE),
                 SECRET_KEY |-> SECRET_KEY,
                 JWT_SECRET_KEY |-> JWT_SECRET_KEY,
                 SQLALCHEMY_DATABASE_URI |-> environ_get("DATABASE_URL", PyNone)]))

config ==
    [development |-> "DevelopmentConfig",
     testing |-> "TestingConfig",
     production |-> "ProductionConfig",
     default |-> "DevelopmentConfig"]

InitConfig ==
    /\ HttpInit
    /\ ComponentIdle
    /\ environ \in Environments
    /\ pc = "Config"
    /\ module = NoModule
    /\ selected = NoSelection

\* One class statement of the module: it binds the class, or raises.
ClassStatement(name, body, next) ==
    /\ module' = IF body.raised = "none"
                 THEN [module EXCEPT ![name] = body.attributes]
                 ELSE [module EXCEPT !.raised = body.raised, !.message = body.message]
    /\ pc' = IF body.raised = "none" THEN next ELSE "raised"
    /\ UNCHANGED <<environ, selected, httpVars, componentVars>>

ClassConfig ==
    /\ pc = "Config"
    /\ ClassStatement("Config", Config, "DevelopmentConfig")

ClassDevelopmentConfig ==
    /\ pc = "DevelopmentConfig"
    /\ ClassStatement("DevelopmentConfig", DevelopmentConfig(module.Config), "TestingConfig")

ClassTestingConfig ==
    /\ pc = "TestingConfig"
    /\ ClassStatement("TestingConfig", TestingConfig(module.Config), "ProductionConfig")

ClassProductionConfig ==
    /\ pc = "ProductionConfig"
    /\ ClassStatement("ProductionConfig", ProductionConfig(module.Config), "config")

ConfigDictionary ==
    /\ pc = "config"
    /\ module' = [module EXCEPT !.config = config]
    /\ pc' = "imported"
    /\ UNCHANGED <<environ, selected, httpVars, componentVars>>

\* config[name], by a caller that has imported the module.
Lookup ==
    /\ pc = "imported"
    /\ \E name \in DOMAIN module.config :
        selected' = [name |-> name, settings |-> module[module.config[name]]]
    /\ UNCHANGED <<environ, pc, module, httpVars, componentVars>>

NextConfig ==
    \/ ClassConfig
    \/ ClassDevelopmentConfig
    \/ ClassTestingConfig
    \/ ClassProductionConfig
    \/ ConfigDictionary
    \/ Lookup

SpecConfig == InitConfig /\ [][NextConfig]_vars

----------------------------------------------------------------------------
(* Properties of the Component model.                                      *)

Assignments == {"update_quantity", "add_stock", "remove_stock"}
Readings == {"is_low_stock", "get_total_value", "to_dict"}

\* What the derived values of a component are to be.
LowStockOf(c) == c.quantity <= c.low_threshold
TotalValueOf(c) ==
    IF c.unit_price = PyNone THEN PyNone
    ELSE Float(c.quantity * c.unit_price.hundredths)

(* C12: is_low_stock() is true exactly when quantity <= low_threshold;     *)
(* get_total_value() is quantity * unit_price when a price is present (a   *)
(* price of 0 gives 0) and None exactly when it is absent; to_dict()       *)
(* reports the same two values under low_stock and total_value.            *)
C12_DerivedValues ==
    /\ call.op = "is_low_stock" => call.result = PyBool(LowStockOf(before))
    /\ call.op = "get_total_value" =>
        /\ call.result = TotalValueOf(before)
        /\ (call.result = PyNone) <=> (before.unit_price = PyNone)
    /\ call.op = "to_dict" =>
        /\ call.result.d.low_stock = LowStockOf(before)
        /\ call.result.d.total_value = TotalValueOf(before)

\* to_dict of a free component holding exactly its threshold.
C12_Witness ==
    /\ call.op = "to_dict"
    /\ before.quantity = before.low_threshold
    /\ before.quantity > 0
    /\ before.unit_price = Decimal(0)
    /\ call.result.d.low_stock = TRUE
    /\ call.result.d.total_value = Float(0)

(* C13: from a quantity >= 0, whatever update_quantity, add_stock and      *)
(* remove_stock calls are made, quantity stays >= 0; remove_stock(amount)  *)
(* succeeds for every 0 <= amount <= quantity and raises beyond it.        *)
C13_QuantityNonNegative ==
    /\ self.quantity >= 0
    /\ call.op = "remove_stock" =>
        LET amount == call.args[1] IN
        /\ (0 <= amount /\ amount <= before.quantity) =>
            /\ call.raised = "none"
            /\ self.quantity = before.quantity - amount
        /\ amount > before.quantity => call.raised = "ValueError"

\* The whole stock is removed, after an earlier call had failed or passed.
C13_Witness ==
    /\ call.op = "remove_stock"
    /\ call.raised = "none"
    /\ before.quantity > 0
    /\ call.args[1] = before.quantity
    /\ self.quantity = 0
    /\ now > 1

(* C14: when update_quantity, add_stock or remove_stock raises ValueError, *)
(* the component is left as it was, quantity and updated_at included.      *)
C14_RaiseLeavesUnchanged ==
    (call.op \in Assignments /\ call.raised = "ValueError") =>
        /\ self.quantity = before.quantity
        /\ self.updated_at = before.updated_at
        /\ self = before

\* add_stock refuses a negative amount on a component that has stock.
C14_Witness ==
    /\ call.op = "add_stock"
    /\ call.raised = "ValueError"
    /\ call.args[1] < 0
    /\ before.quantity > 0
    /\ self = before

\* The fields that no assigning method is to touch.
Kept == DOMAIN self \ {"quantity", "updated_at"}

(* C15: a successful update_quantity, add_stock or remove_stock changes    *)
(* only quantity and updated_at; is_low_stock, get_total_value and to_dict *)
(* change no field.                                                        *)
C15_Frame ==
    /\ (call.op \in Assignments /\ call.raised = "none") =>
        \A field \in Kept : self[field] = before[field]
    /\ call.op \in Readings => self = before

\* update_quantity takes the stock below the threshold.
C15_Witness ==
    /\ call.op = "update_quantity"
    /\ call.raised = "none"
    /\ self.quantity < before.quantity
    /\ self.quantity < before.low_threshold
    /\ self.low_threshold = before.low_threshold
    /\ self.updated_at # before.updated_at

(* C17: in to_dict(), unit_price is None if and only if total_value is     *)
(* None, which is exactly when the component has no unit_price; a          *)
(* component priced at 0 is reported with unit_price 0 and total_value 0.  *)
C17_PriceConsistent ==
    call.op = "to_dict" =>
        /\ (call.result.d.unit_price = PyNone) <=> (call.result.d.total_value = PyNone)
        /\ (call.result.d.unit_price = PyNone) <=> (before.unit_price = PyNone)
        /\ before.unit_price = Decimal(0) =>
            /\ call.result.d.unit_price = Float(0)
            /\ call.result.d.total_value = Float(0)

----------------------------------------------------------------------------
(* Properties of the configuration module.                                 *)

Falsy(key) == ~PyTruthy(environ_get(key, PyNone))

(* C18: loading the configuration module succeeds in every environment;    *)
(* config['development'], config['testing'] and config['default'] carry    *)
(* the development SECRET_KEY and JWT_SECRET_KEY whenever the environment  *)
(* variable is unset or empty; the ValueError for a missing key is raised  *)
(* only when the production configuration is the one selected.             *)
C18_ConfigLoads ==
    /\ module.raised = "none"
    /\ selected.name \in {"development", "testing", "default"} =>
        /\ Falsy("SECRET_KEY") =>
            selected.settings.SECRET_KEY = Text("dev-secret-key-change-in-production")
        /\ Falsy("JWT_SECRET_KEY") =>
            selected.settings.JWT_SECRET_KEY = Text("jwt-secret-change-in-production")
    /\ module.message \in {"No SECRET_KEY set for production environment",
                           "No JWT_SECRET_KEY set for production environment"} =>
        selected.name = "production"

====
